---------------------------- MODULE Spec2Model ----------------------------
(***************************************************************************)
(* A model of server.js of the Network Utility App: the host validator,   *)
(* the command runner with its timeout race, the ping output parser, the  *)
(* ping / traceroute handlers and the download / upload speed-test        *)
(* handlers.                                                               *)
(*                                                                         *)
(* JavaScript strings are sequences of one-character strings.  JavaScript *)
(* values that may be of several types are records [t, s] (t the typeof   *)
(* tag, s the characters of a string).  Node runs every callback to       *)
(* completion on one thread, so each callback is one action.              *)
(***************************************************************************)
EXTENDS Integers, Sequences, FiniteSets, TLC

VARIABLES
    \* ---- validateHost applied to one input (SpecHost)
    hostIn, hostOut, hostPc,
    \* ---- parsePingResult applied to one output (SpecParse)
    parseIn, parseOut, parsePc,
    \* ---- one /api/ping or /api/traceroute request at a time (Spec)
    route, query, reqPc, spawned, stdout, stderr, finished, timer,
    killCalls, childState, errorsSeen, resolutions, response, isWindows,
    \* ---- one /api/speedtest/download request at a time (SpecDownload)
    dlQuery, dlPc, headerLen, remaining, chunk0, stream, drainListeners,
    needDrain, ends, lateWrites, bytesWritten, drainsSeen, prevQuery,
    prevStream,
    \* ---- one /api/speedtest/upload request at a time (SpecUpload)
    upReq, upPc, reqBody, upResponse

hostVars  == <<hostIn, hostOut, hostPc>>
parseVars == <<parseIn, parseOut, parsePc>>
runVars   == <<route, query, reqPc, spawned, stdout, stderr, finished, timer,
               killCalls, childState, errorsSeen, resolutions, response,
               isWindows>>
dlVars    == <<dlQuery, dlPc, headerLen, remaining, chunk0, stream,
               drainListeners, needDrain, ends, lateWrites, bytesWritten,
               drainsSeen, prevQuery, prevStream>>
upVars    == <<upReq, upPc, reqBody, upResponse>>
vars      == <<hostVars, parseVars, runVars, dlVars, upVars>>

-----------------------------------------------------------------------------
(* JavaScript values *)

Undefined == [t |-> "undefined", s |-> <<>>]
Null      == [t |-> "null", s |-> <<>>]
ArrayVal  == [t |-> "array", s |-> <<>>]
ObjectVal == [t |-> "object", s |-> <<>>]
Str(s)    == [t |-> "string", s |-> s]

Letters ==
    { "a","b","c","d","e","f","g","h","i","j","k","l","m","n","o","p","q",
      "r","s","t","u","v","w","x","y","z",
      "A","B","C","D","E","F","G","H","I","J","K","L","M","N","O","P","Q",
      "R","S","T","U","V","W","X","Y","Z" }
Digits == { "0","1","2","3","4","5","6","7","8","9" }
WhiteSpace == { " ", "\t", "\n", "\r" }

\* All sequences over S of length 0..n
SeqUpTo(S, n) == UNION { [1..k -> S] : k \in 0..n }

\* c repeated k times
Fill(c, k) == [i \in 1..k |-> c]

-----------------------------------------------------------------------------
(* validateHost *)

MaxHostLen == 255

\* the character class [A-Za-z0-9.\-:]
HostChars == Letters \cup Digits \cup { ".", "-", ":" }

\* String.prototype.trim
RECURSIVE TrimStart(_)
TrimStart(s) ==
    IF s # <<>> /\ Head(s) \in WhiteSpace THEN TrimStart(Tail(s)) ELSE s

RECURSIVE TrimEnd(_)
TrimEnd(s) ==
    IF s # <<>> /\ s[Len(s)] \in WhiteSpace
    THEN TrimEnd(SubSeq(s, 1, Len(s) - 1))
    ELSE s

Trim(s) == TrimEnd(TrimStart(s))

\* /^[A-Za-z0-9.\-:]+$/.test(s): the anchors make the class cover the whole
\* string (no m flag, so $ is the end of the input), + needs one character
AllInClass(s, class) == \A i \in 1..Len(s) : s[i] \in class

HostRegexTest(s) == s # <<>> /\ AllInClass(s, HostChars)

validateHost_NoTrim(input) ==
    IF input.t # "string" THEN Null
    ELSE LET host == Trim(input.s)
         IN  IF host = <<>> \/ Len(host) > MaxHostLen THEN Null
             ELSE IF ~HostRegexTest(host) THEN Null
             ELSE Str(input.s)

validateHost(input) ==
    IF input.t # "string" THEN Null
    ELSE LET host == Trim(input.s)
         IN  IF host = <<>> \/ Len(host) > MaxHostLen THEN Null
             ELSE IF ~HostRegexTest(host) THEN Null
             ELSE Str(host)


-----------------------------------------------------------------------------
(* JavaScript numbers.  A finite number is kept as twice its value (h), so *)
(* that integers and halves are exact; NaN and Infinity are kinds.         *)

Finite(h)  == [k |-> "finite", h |-> h]
Int2Num(n) == Finite(2 * n)
NaN        == [k |-> "NaN", h |-> 0]
Infinity   == [k |-> "Infinity", h |-> 0]
NullNum    == [k |-> "null", h |-> 0]

IsInteger(x) == x.k = "finite" /\ x.h % 2 = 0

\* Math.round((lost / transmitted) * 100) for integers lost, transmitted >= 0:
\* 0/0 is NaN, lost/0 is Infinity, Math.round keeps both; otherwise the
\* quotient is rounded to the nearest integer, halves upwards
LossPercent(lost, transmitted) ==
    IF transmitted = 0
    THEN IF lost = 0 THEN NaN ELSE Infinity
    ELSE Int2Num((200 * lost + transmitted) \div (2 * transmitted))

-----------------------------------------------------------------------------
(* parsePingResult.  A line of output is a sequence of tokens: a word, a   *)
(* punctuation mark or a run of digits (w = "#", n its value); white space *)
(* separates tokens.  The output is the sequence of its lines, which is    *)
(* what output.split(/\r?\n/) yields.  The two round-trip-time patterns    *)
(* (min, avg, max) are left out.                                           *)

Tok(w) == [w |-> w, n |-> 0]
Num(n) == [w |-> "#", n |-> n]
IsNum(tk) == tk.w = "#"

\* the i flag of the patterns
Lower(w) ==
    CASE w = "Packets:" -> "packets:"
      [] w = "Sent" -> "sent"
      [] w = "Received" -> "received"
      [] w = "Lost" -> "lost"
      [] OTHER -> w

WordsAt(line, i, ws) ==
    /\ i + Len(ws) - 1 <= Len(line)
    /\ \A k \in 1..Len(ws) : Lower(line[i + k - 1].w) = ws[k]

\* regex.test(line) for a pattern that is a run of words
Contains(line, ws) == \E i \in 1..Len(line) : WordsAt(line, i, ws)

\* line.match(/<ws>\s*(\d+)/i): the digits captured by the leftmost match,
\* NullNum when there is none
NumberAfter(line, ws) ==
    LET P == { i \in 1..Len(line) :
                 /\ WordsAt(line, i, ws)
                 /\ i + Len(ws) <= Len(line)
                 /\ IsNum(line[i + Len(ws)]) }
    IN  IF P = {} THEN NullNum
        ELSE LET i == CHOOSE j \in P : \A q \in P : j <= q
             IN  Int2Num(line[i + Len(ws)].n)

\* lines.find(pred), P being the positions of the lines that satisfy pred:
\* the first of them, <<>> standing for undefined (an empty line satisfies
\* none of the predicates used)
FirstLine(lines, P) ==
    IF P = {} THEN <<>>
    ELSE lines[CHOOSE j \in P : \A q \in P : j <= q]

IsUnixStats(l) ==
    Contains(l, <<"packets", "transmitted">>) /\ Contains(l, <<"received">>)

IsWinStats(l) == Contains(l, <<"packets:", "sent", "=">>)

\* /(\d+)\s+packets transmitted,\s+(\d+)\s+received.*?(\d+)%\s+packet loss/i
\* the three captures of the leftmost match, <<>> when there is none
UnixMatch(l) ==
    LET head == <<"packets", "transmitted", ",">>
        tail == <<"%", "packet", "loss">>
        P == { i \in 1..Len(l) :
                 /\ IsNum(l[i])
                 /\ WordsAt(l, i + 1, head)
                 /\ i + 5 <= Len(l)
                 /\ IsNum(l[i + 4])
                 /\ WordsAt(l, i + 5, <<"received">>)
                 /\ \E j \in (i + 6)..Len(l) :
                        IsNum(l[j]) /\ WordsAt(l, j + 1, tail) }
    IN  IF P = {} THEN <<>>
        ELSE LET i == CHOOSE a \in P : \A q \in P : a <= q
                 J == { j \in (i + 6)..Len(l) :
                          IsNum(l[j]) /\ WordsAt(l, j + 1, tail) }
                 j == CHOOSE a \in J : \A q \in J : a <= q
             IN  << Int2Num(l[i].n), Int2Num(l[i + 4].n), Int2Num(l[j].n) >>

parsePingResult(output) ==
    LET unixStats ==
            FirstLine(output, { i \in 1..Len(output) : IsUnixStats(output[i]) })
        m == IF unixStats = <<>> THEN <<>> ELSE UnixMatch(unixStats)
        r1 == [transmitted |-> IF m = <<>> THEN NullNum ELSE m[1],
               received    |-> IF m = <<>> THEN NullNum ELSE m[2],
               loss        |-> IF m = <<>> THEN NullNum ELSE m[3],
               raw         |-> output]
        winStatLine ==
            FirstLine(output, { i \in 1..Len(output) : IsWinStats(output[i]) })
    IN  IF winStatLine = <<>> THEN r1
        ELSE LET sentMatch == NumberAfter(winStatLine, <<"sent", "=">>)
                 recMatch  == NumberAfter(winStatLine, <<"received", "=">>)
                 lostMatch == NumberAfter(winStatLine, <<"lost", "=">>)
                 tx == IF sentMatch # NullNum THEN sentMatch
                       ELSE r1.transmitted
             IN  [transmitted |-> tx,
                  received |-> IF recMatch # NullNum THEN recMatch
                               ELSE r1.received,
                  loss |-> IF lostMatch # NullNum /\ tx # NullNum
                           THEN LossPercent(lostMatch.h \div 2, tx.h \div 2)
                           ELSE r1.loss,
                  raw |-> output]


-----------------------------------------------------------------------------
(* runCommand and the /api/ping and /api/traceroute handlers.  One request *)
(* is followed from its arrival to its response and beyond (events of the  *)
(* child that arrive late).  The text buffers stdout and stderr are        *)
(* sequences of lines; a 'data' event appends one line.  resolutions logs  *)
(* every call of resolve: the value passed (code, stdout, stderr,          *)
(* timedOut), the callback that made the call (by) and the number of       *)
(* child.kill calls made before it (killsBefore).                          *)

MaxData   == 2      \* 'data' events per request
MaxErrors == 2      \* 'error' events per request

NoSpawn    == [cmd |-> <<>>, args |-> <<>>]
NoResponse == [status |-> 0]

PingLine   == << Tok("PING") >>
WinLine(sent, rec, lost) ==
    << Tok("Packets:"), Tok("Sent"), Tok("="), sent, Tok(","),
       Tok("Received"), Tok("="), rec, Tok(","),
       Tok("Lost"), Tok("="), lost >>
UnixLine(tx, rec, loss) ==
    << tx, Tok("packets"), Tok("transmitted"), Tok(","), rec, Tok("received"),
       Tok(","), loss, Tok("%"), Tok("packet"), Tok("loss") >>

DataLines    == { PingLine, WinLine(Num(1), Num(1), Num(0)) }
ErrorText    == << Tok("Error:"), Tok("spawn"), Tok("ENOENT") >>
TimedOutMark == << Tok("[Timed"), Tok("out]") >>
ExitCodes    == { NullNum, Int2Num(0), Int2Num(1) }

Chars(w) ==
    CASE w = "-n" -> <<"-", "n">>
      [] w = "-c" -> <<"-", "c">>
      [] w = "-w" -> <<"-", "w">>
      [] w = "-d" -> <<"-", "d">>
      [] w = "-h" -> <<"-", "h">>
      [] w = "-m" -> <<"-", "m">>
      [] w = "4" -> <<"4">>
      [] w = "30" -> <<"3", "0">>
      [] w = "2000" -> <<"2", "0", "0", "0">>
      [] w = "ping" -> <<"p", "i", "n", "g">>
      [] w = "tracert" -> <<"t", "r", "a", "c", "e", "r", "t">>
      [] w = "traceroute" -> <<"t", "r", "a", "c", "e", "r", "o", "u", "t", "e">>

QueryHosts ==
    { Undefined, ArrayVal, ObjectVal, Str(<<>>), Str(<<" ">>),
      Str(<<"a", ".", "b">>), Str(<<" ", ":", ":", "1", "\n">>),
      Str(<<"a", ";", "b">>), Str(<<"a", " ", "b">>), Str(<<"$", "a">>),
      Str(Fill("a", MaxHostLen)), Str(Fill("a", MaxHostLen + 1)) }

\* clearTimeout(timer): a timer that has fired or was cleared stays as it is
ClearTimeout(tm) == IF tm = "armed" THEN "cleared" ELSE tm

RunInit ==
    /\ route = "none" /\ query = Undefined /\ reqPc = "idle"
    /\ spawned = NoSpawn /\ stdout = <<>> /\ stderr = <<>>
    /\ finished = FALSE /\ timer = "none" /\ killCalls = 0
    /\ childState = "none" /\ errorsSeen = 0 /\ resolutions = <<>>
    /\ response = NoResponse

PingArgs(host) ==
    IF isWindows
    THEN << Chars("-n"), Chars("4"), Chars("-w"), Chars("2000"), host >>
    ELSE << Chars("-c"), Chars("4"), host >>

TracerouteCmd == IF isWindows THEN Chars("tracert") ELSE Chars("traceroute")

TracerouteArgs(host) ==
    IF isWindows
    THEN << Chars("-d"), Chars("-h"), Chars("30"), host >>
    ELSE << Chars("-n"), Chars("-m"), Chars("30"), host >>

\* new Promise(...) of runCommand up to its return: spawn, the buffers, the
\* flag and the timer
StartCommand(cmd, args) ==
    /\ spawned' = [cmd |-> cmd, args |-> args]
    /\ childState' = "running"
    /\ stdout' = <<>> /\ stderr' = <<>>
    /\ finished' = FALSE
    /\ timer' = "armed"
    /\ reqPc' = "awaiting"
    /\ UNCHANGED <<killCalls, errorsSeen, resolutions, response>>

Reject400 ==
    /\ response' = [status |-> 400, error |-> "Invalid host"]
    /\ reqPc' = "responded"
    /\ UNCHANGED <<spawned, childState, stdout, stderr, finished, timer,
                   killCalls, errorsSeen, resolutions>>

\* PingRequest with the test of the validator's answer left out
PingRequest_NoCheck(q) ==
    /\ reqPc = "idle"
    /\ route' = "ping" /\ query' = q
    /\ StartCommand(Chars("ping"), PingArgs(q.s))
    /\ UNCHANGED isWindows

\* app.get('/api/ping') up to its await
PingRequest(q) ==
    /\ reqPc = "idle"
    /\ route' = "ping" /\ query' = q
    /\ LET host == validateHost(q)
       IN  IF host = Null THEN Reject400
           ELSE StartCommand(Chars("ping"), PingArgs(host.s))
    /\ UNCHANGED isWindows

\* app.get('/api/traceroute') up to its await
TracerouteRequest(q) ==
    /\ reqPc = "idle"
    /\ route' = "traceroute" /\ query' = q
    /\ LET host == validateHost(q)
       IN  IF host = Null THEN Reject400
           ELSE StartCommand(TracerouteCmd, TracerouteArgs(host.s))
    /\ UNCHANGED isWindows

DataCount == Len(stdout) + Len(stderr)

\* child.stdout.on('data')
StdoutData(d) ==
    /\ childState = "running" /\ DataCount < MaxData
    /\ stdout' = Append(stdout, d)
    /\ UNCHANGED <<route, query, reqPc, spawned, stderr, finished, timer,
                   killCalls, childState, errorsSeen, resolutions, response,
                   isWindows>>

\* child.stderr.on('data')
StderrData(d) ==
    /\ childState = "running" /\ DataCount < MaxData
    /\ stderr' = Append(stderr, d)
    /\ UNCHANGED <<route, query, reqPc, spawned, stdout, finished, timer,
                   killCalls, childState, errorsSeen, resolutions, response,
                   isWindows>>

\* TimerFires without the call of child.kill
TimerFires_NoKill ==
    /\ timer = "armed"
    /\ timer' = "fired"
    /\ IF ~finished
       THEN /\ finished' = TRUE
            /\ resolutions' = Append(resolutions,
                   [code |-> NullNum, stdout |-> stdout,
                    stderr |-> Append(stderr, TimedOutMark),
                    timedOut |-> TRUE, by |-> "timeout",
                    killsBefore |-> killCalls])
       ELSE UNCHANGED <<finished, resolutions>>
    /\ UNCHANGED <<route, query, reqPc, spawned, stdout, stderr, childState,
                   errorsSeen, response, isWindows, killCalls>>

\* the setTimeout callback
TimerFires ==
    /\ timer = "armed"
    /\ timer' = "fired"
    /\ IF ~finished
       THEN /\ finished' = TRUE
            /\ killCalls' = killCalls + 1
            /\ resolutions' = Append(resolutions,
                   [code |-> NullNum, stdout |-> stdout,
                    stderr |-> Append(stderr, TimedOutMark),
                    timedOut |-> TRUE, by |-> "timeout",
                    killsBefore |-> killCalls + 1])
       ELSE UNCHANGED <<finished, killCalls, resolutions>>
    /\ UNCHANGED <<route, query, reqPc, spawned, stdout, stderr, childState,
                   errorsSeen, response, isWindows>>

\* child.on('error')
ChildError ==
    /\ childState # "none" /\ errorsSeen < MaxErrors
    /\ errorsSeen' = errorsSeen + 1
    /\ IF ~finished
       THEN /\ finished' = TRUE
            /\ timer' = ClearTimeout(timer)
            /\ resolutions' = Append(resolutions,
                   [code |-> NullNum, stdout |-> stdout,
                    stderr |-> << ErrorText >>,
                    timedOut |-> FALSE, by |-> "error",
                    killsBefore |-> killCalls])
       ELSE UNCHANGED <<finished, timer, resolutions>>
    /\ UNCHANGED <<route, query, reqPc, spawned, stdout, stderr, killCalls,
                   childState, response, isWindows>>

\* ChildClose without the test of the finished flag
ChildClose_Unguarded(code) ==
    /\ childState = "running"
    /\ childState' = "closed"
    /\ finished' = TRUE
    /\ timer' = ClearTimeout(timer)
    /\ resolutions' = Append(resolutions,
           [code |-> code, stdout |-> stdout, stderr |-> stderr,
            timedOut |-> FALSE, by |-> "close", killsBefore |-> killCalls])
    /\ UNCHANGED <<route, query, reqPc, spawned, stdout, stderr, killCalls,
                   errorsSeen, response, isWindows>>

\* child.on('close')
ChildClose(code) ==
    /\ childState = "running"
    /\ childState' = "closed"
    /\ IF ~finished
       THEN /\ finished' = TRUE
            /\ timer' = ClearTimeout(timer)
            /\ resolutions' = Append(resolutions,
                   [code |-> code, stdout |-> stdout, stderr |-> stderr,
                    timedOut |-> FALSE, by |-> "close",
                    killsBefore |-> killCalls])
       ELSE UNCHANGED <<finished, timer, resolutions>>
    /\ UNCHANGED <<route, query, reqPc, spawned, stdout, stderr, killCalls,
                   errorsSeen, response, isWindows>>

\* Respond with ok computed from timedOut alone
Respond_OkIgnoresCode ==
    /\ reqPc = "awaiting" /\ resolutions # <<>>
    /\ LET r == resolutions[1]
           combined == r.stdout \o r.stderr
           ok == ~r.timedOut
       IN  response' =
             IF route = "ping"
             THEN [status |-> 200, ok |-> ok, exitCode |-> r.code,
                   timedOut |-> r.timedOut,
                   stats |-> parsePingResult(combined)]
             ELSE [status |-> 200, ok |-> ok, exitCode |-> r.code,
                   timedOut |-> r.timedOut, output |-> combined]
    /\ reqPc' = "responded"
    /\ UNCHANGED <<route, query, spawned, stdout, stderr, finished, timer,
                   killCalls, childState, errorsSeen, resolutions, isWindows>>

\* the handlers after their await: the promise settled with the first value
\* passed to resolve
Respond ==
    /\ reqPc = "awaiting" /\ resolutions # <<>>
    /\ LET r == resolutions[1]
           combined == r.stdout \o r.stderr
           ok == ~r.timedOut /\ r.code = Int2Num(0)
       IN  response' =
             IF route = "ping"
             THEN [status |-> 200, ok |-> ok, exitCode |-> r.code,
                   timedOut |-> r.timedOut,
                   stats |-> parsePingResult(combined)]
             ELSE [status |-> 200, ok |-> ok, exitCode |-> r.code,
                   timedOut |-> r.timedOut, output |-> combined]
    /\ reqPc' = "responded"
    /\ UNCHANGED <<route, query, spawned, stdout, stderr, finished, timer,
                   killCalls, childState, errorsSeen, resolutions, isWindows>>


-----------------------------------------------------------------------------
(* Number(string) and String(number), for the decimal numerals the model   *)
(* draws: an optional sign, digits, and an optional fraction that is a     *)
(* whole number of halves (.0, .5); anything else with a character that is *)
(* no digit is NaN.  Exponents, hexadecimal and "Infinity" are not drawn.  *)

DigitValue(c) ==
    CASE c = "0" -> 0 [] c = "1" -> 1 [] c = "2" -> 2 [] c = "3" -> 3
      [] c = "4" -> 4 [] c = "5" -> 5 [] c = "6" -> 6 [] c = "7" -> 7
      [] c = "8" -> 8 [] c = "9" -> 9

DigitChar(d) ==
    CASE d = 0 -> "0" [] d = 1 -> "1" [] d = 2 -> "2" [] d = 3 -> "3"
      [] d = 4 -> "4" [] d = 5 -> "5" [] d = 6 -> "6" [] d = 7 -> "7"
      [] d = 8 -> "8" [] d = 9 -> "9"

RECURSIVE DigitsValue(_)
DigitsValue(s) ==
    IF s = <<>> THEN 0
    ELSE 10 * DigitsValue(SubSeq(s, 1, Len(s) - 1)) + DigitValue(s[Len(s)])

RECURSIVE NatToString(_)
NatToString(n) ==
    IF n < 10 THEN << DigitChar(n) >>
    ELSE Append(NatToString(n \div 10), DigitChar(n % 10))

\* the halves a fraction's digits denote: 1 for 5, 50, ..., otherwise 0
FractionHalves(f) == IF f # <<>> /\ Head(f) = "5" THEN 1 ELSE 0

StringToNumber(s) ==
    LET tr   == Trim(s)
        neg  == tr # <<>> /\ Head(tr) = "-"
        body == IF tr # <<>> /\ Head(tr) \in {"-", "+"} THEN Tail(tr) ELSE tr
        dots == { i \in 1..Len(body) : body[i] = "." }
        dot  == IF dots = {} THEN Len(body) + 1
                ELSE CHOOSE i \in dots : \A j \in dots : i <= j
        ip   == SubSeq(body, 1, dot - 1)
        fp   == SubSeq(body, dot + 1, Len(body))
    IN  IF tr = <<>> THEN Finite(0)
        ELSE IF /\ AllInClass(ip, Digits) /\ AllInClass(fp, Digits)
                /\ (ip # <<>> \/ fp # <<>>)
        THEN LET h == 2 * DigitsValue(ip) + FractionHalves(fp)
             IN  Finite(IF neg THEN 0 - h ELSE h)
        ELSE NaN

\* String(x) for a number
NumberToString(x) ==
    IF x.k = "NaN" THEN <<"N", "a", "N">>
    ELSE LET a == IF x.h < 0 THEN 0 - x.h ELSE x.h
             digits == NatToString(a \div 2)
             frac == IF a % 2 = 1 THEN <<".", "5">> ELSE <<>>
         IN  (IF x.h < 0 THEN <<"-">> ELSE <<>>) \o digits \o frac

\* Math.min(a, b) and Math.max(a, b) with b finite: NaN if a is NaN
MathMin(a, b) ==
    IF a.k = "NaN" THEN NaN ELSE IF a.h < b.h THEN a ELSE b
MathMax(a, b) ==
    IF a.k = "NaN" THEN NaN ELSE IF a.h > b.h THEN a ELSE b

-----------------------------------------------------------------------------
(* /api/speedtest/download.  The stream is the sequence of the buffers      *)
(* passed to res.write, each kept as <<first byte, length>>: the bytes      *)
(* after the first are those of the fixed fill; bytesWritten is their       *)
(* total length, ends the number of res.end calls, lateWrites the number    *)
(* of res.write calls made after res.end, drainsSeen the number of 'drain'  *)
(* events (counted up to MaxDrainsCounted).  writeMore's loop               *)
(* is followed one iteration at a time (dlPc = "loop"), since each          *)
(* iteration asks the transport whether to go on; nothing else runs while   *)
(* the loop does.                                                           *)

MaxDrainsCounted == 2

MIN_SIZE     == 1024
MAX_SIZE     == 50 * 1024 * 1024
DEFAULT_SIZE == 25 * 1024 * 1024
CHUNK        == 64 * 1024

NoQuery == [t |-> "none", s |-> <<>>]

DlQueries ==
    { Undefined,
      Str(<<"a", "b", "c">>),
      Str(<<"0">>),
      Str(<<"-", "5">>),
      Str(<<"1", "0", "2", "3">>),
      Str(<<"1", "0", "2", "4">>),
      Str(<<"1", "5", "0", "0", ".", "5">>),
      Str(<<"6", "5", "5", "3", "7">>),
      Str(<<"6", "5", "5", "3", "6", ".", "5">>),
      Str(<<"2", "0", "0", "0", "0", "0">>),
      Str(<<"1", "0", "0", "0", "0", "0", "0", "0">>),
      Str(<<"9", "9", "9", "9", "9", "9", "9", "9", "9">>) }

\* a value used as a condition
Truthy(v) == ~(v.t \in {"undefined", "null"} \/ (v.t = "string" /\ v.s = <<>>))

\* Number(v) for a query value: an array of several values or an object is NaN
ToNumber(v) ==
    IF v.t = "string" THEN StringToNumber(v.s) ELSE NaN

\* Number(req.query.size || 25 * 1024 * 1024)
SizeParam(q) == IF Truthy(q) THEN ToNumber(q) ELSE Int2Num(DEFAULT_SIZE)

\* Math.max(1024, Math.min(sizeParam, MAX_SIZE))
ClampSize(q) ==
    LET lo == MathMin(SizeParam(q), Int2Num(MAX_SIZE))
    IN  IF lo.k = "NaN" THEN NaN ELSE MathMax(lo, Int2Num(MIN_SIZE))

\* the first byte of the fill: (0 * 97 + 31) & 0xff
FirstFill == 31

DlInit ==
    /\ dlQuery = NoQuery /\ dlPc = "idle" /\ headerLen = <<>>
    /\ remaining = Finite(0) /\ chunk0 = FirstFill /\ stream = <<>>
    /\ drainListeners = 0 /\ needDrain = FALSE /\ ends = 0 /\ lateWrites = 0
    /\ bytesWritten = 0 /\ drainsSeen = 0
    /\ prevQuery = NoQuery /\ prevStream = <<>>

\* app.get('/api/speedtest/download') up to the first test of the loop; the
\* response of the request before, if any, is kept in prevQuery, prevStream
DownloadRequest(q) ==
    /\ dlPc \in {"idle", "ended"}
    /\ prevQuery' = dlQuery /\ prevStream' = stream
    /\ dlQuery' = q
    /\ headerLen' = NumberToString(ClampSize(q))
    /\ remaining' = ClampSize(q)
    /\ chunk0' = FirstFill
    /\ stream' = <<>>
    /\ drainListeners' = 0 /\ needDrain' = FALSE
    /\ ends' = 0 /\ lateWrites' = 0 /\ bytesWritten' = 0 /\ drainsSeen' = 0
    /\ dlPc' = "loop"

\* remaining > 0
Positive(x) == x.k = "finite" /\ x.h > 0

\* Perturb without the increment
Perturb_None(b) == b % 256

\* the next value of chunk[0]
Perturb(b) == (b + 1) % 256

\* WriteChunk with remaining decreased only after the test of canContinue
WriteChunk_LateDecrement(canContinue) ==
    /\ dlPc = "loop" /\ Positive(remaining)
    /\ LET toWrite == MathMin(Finite(2 * CHUNK), remaining)
       IN  /\ chunk0' = Perturb(chunk0)
           /\ stream' = Append(stream, << Perturb(chunk0), toWrite.h \div 2 >>)
           /\ bytesWritten' = bytesWritten + toWrite.h \div 2
           /\ remaining' = IF canContinue THEN Finite(remaining.h - toWrite.h)
                           ELSE remaining
    /\ lateWrites' = IF ends > 0 THEN lateWrites + 1 ELSE lateWrites
    /\ IF canContinue
       THEN UNCHANGED <<dlPc, drainListeners, needDrain>>
       ELSE /\ drainListeners' = drainListeners + 1
            /\ needDrain' = TRUE
            /\ dlPc' = "paused"
    /\ UNCHANGED <<dlQuery, headerLen, ends, drainsSeen, prevQuery,
                   prevStream>>

\* one iteration of the loop of writeMore; canContinue is what res.write
\* returns.  subarray(0, toWrite) drops a fraction of toWrite.
WriteChunk(canContinue) ==
    /\ dlPc = "loop" /\ Positive(remaining)
    /\ LET toWrite == MathMin(Finite(2 * CHUNK), remaining)
       IN  /\ chunk0' = Perturb(chunk0)
           /\ stream' = Append(stream, << Perturb(chunk0), toWrite.h \div 2 >>)
           /\ bytesWritten' = bytesWritten + toWrite.h \div 2
           /\ remaining' = Finite(remaining.h - toWrite.h)
    /\ lateWrites' = IF ends > 0 THEN lateWrites + 1 ELSE lateWrites
    /\ IF canContinue
       THEN UNCHANGED <<dlPc, drainListeners, needDrain>>
       ELSE /\ drainListeners' = drainListeners + 1
            /\ needDrain' = TRUE
            /\ dlPc' = "paused"
    /\ UNCHANGED <<dlQuery, headerLen, ends, drainsSeen, prevQuery,
                   prevStream>>

\* the loop's test fails: res.end()
EndStream ==
    /\ dlPc = "loop" /\ ~Positive(remaining)
    /\ ends' = ends + 1
    /\ dlPc' = "ended"
    /\ UNCHANGED <<dlQuery, headerLen, remaining, chunk0, stream,
                   drainListeners, needDrain, lateWrites, bytesWritten,
                   drainsSeen, prevQuery, prevStream>>

\* the response emits 'drain': the one-shot listeners are removed and run
Drain ==
    /\ needDrain /\ dlPc = "paused"
    /\ needDrain' = FALSE
    /\ drainListeners' = 0
    /\ dlPc' = IF drainListeners > 0 THEN "loop" ELSE dlPc
    /\ drainsSeen' = IF drainsSeen < MaxDrainsCounted THEN drainsSeen + 1
                     ELSE drainsSeen
    /\ UNCHANGED <<dlQuery, headerLen, remaining, chunk0, stream, ends,
                   lateWrites, bytesWritten, prevQuery, prevStream>>

-----------------------------------------------------------------------------
(* /api/speedtest/upload: the express.raw middleware mounted on the path,  *)
(* then the handler.  A request is its declared content type, the length   *)
(* of its body and its framing: a Content-Length header ("length"),        *)
(* Transfer-Encoding: chunked ("chunked") or no body at all ("none").      *)

MAX_BYTES   == 200 * 1024 * 1024
\* bytes('200mb')
RAW_LIMIT   == 200 * 1024 * 1024
RAW_TYPE    == "application/octet-stream"

ContentTypes ==
    { RAW_TYPE, "text/plain", "application/json", "multipart/form-data",
      "none" }
BodyLengths ==
    { 0, 1, 1024, RAW_LIMIT - 1, RAW_LIMIT, RAW_LIMIT + 1, 2 * RAW_LIMIT }

Framings == { "length", "chunked", "none" }
UploadRequests ==
    { r \in [ctype : ContentTypes, len : BodyLengths, framing : Framings] :
        r.framing = "none" => r.len = 0 }

NoRequest == [ctype |-> "none", len |-> 0, framing |-> "none"]
NoBody    == [t |-> "undefined", length |-> 0]
Buffer(n) == [t |-> "buffer", length |-> n]

UpInit ==
    /\ upReq = NoRequest /\ upPc = "idle" /\ reqBody = NoBody
    /\ upResponse = NoResponse

UploadArrives(r) ==
    /\ upPc = "idle"
    /\ upReq' = r
    /\ upPc' = "middleware"
    /\ UNCHANGED <<reqBody, upResponse>>

\* express.raw({ type: 'application/octet-stream', limit: '200mb' }): a
\* request of another type, or without a body, is passed on unread; a body
\* declared or found longer than the limit ends the request with 413
RawBodyParser ==
    /\ upPc = "middleware"
    /\ IF upReq.ctype # RAW_TYPE \/ upReq.framing = "none"
       THEN /\ upPc' = "handler"
            /\ UNCHANGED <<reqBody, upResponse>>
       ELSE IF upReq.len > RAW_LIMIT
       THEN /\ upResponse' = [status |-> 413, error |-> "PayloadTooLargeError"]
            /\ upPc' = "responded"
            /\ UNCHANGED reqBody
       ELSE /\ reqBody' = Buffer(upReq.len)
            /\ upPc' = "handler"
            /\ UNCHANGED upResponse
    /\ UNCHANGED upReq

\* app.post('/api/speedtest/upload'): req.body?.length || 0
UploadHandler ==
    /\ upPc = "handler"
    /\ LET bytes == IF reqBody.t = "buffer" THEN reqBody.length ELSE 0
       IN  upResponse' =
             IF bytes > MAX_BYTES
             THEN [status |-> 413, error |-> "Payload too large"]
             ELSE [status |-> 200, receivedBytes |-> bytes]
    /\ upPc' = "responded"
    /\ UNCHANGED <<upReq, reqBody>>


-----------------------------------------------------------------------------
(* The specifications.  Each follows one part of the server; the variables *)
(* of the other parts stay as they start.                                  *)

MaxCore  == 3      \* characters of a host input beside its padding
MaxLines == 2      \* lines of a parser input
MaxCount == 2      \* the largest packet count of a parser input

HostAlphabet == { "a", "5", "-", ":", " ", ";" }

\* host inputs: white space or not, then a run of "a" that brings the length
\* near MaxHostLen or not, then up to MaxCore characters
HostInputs ==
    { Undefined, ArrayVal, ObjectVal } \cup
    { Str(lead \o Fill("a", k) \o core) :
        lead \in { <<>>, <<"\t">> },
        k \in { 0, MaxHostLen - 2, MaxHostLen - 1, MaxHostLen },
        core \in SeqUpTo(HostAlphabet, MaxCore) }

Counts    == { Num(n) : n \in 0..MaxCount }
WinFields == Counts \cup { Tok("x") }

ParseLines ==
    { <<>>, PingLine }
    \cup { WinLine(a, b, c) : a \in WinFields, b \in WinFields, c \in WinFields }
    \cup { UnixLine(a, b, c) : a \in Counts, b \in Counts, c \in Counts }

ParseInputs == SeqUpTo(ParseLines, MaxLines) \ { <<>> }

NoStats == [transmitted |-> NullNum, received |-> NullNum, loss |-> NullNum,
            raw |-> <<>>]

HostInit  == hostIn = Undefined /\ hostOut = Null /\ hostPc = "idle"
ParseInit == parseIn = <<>> /\ parseOut = NoStats /\ parsePc = "idle"

\* ---- validateHost on its own
HostCall(input) ==
    /\ hostPc = "idle"
    /\ hostIn' = input
    /\ hostOut' = validateHost(input)
    /\ hostPc' = "done"
    /\ UNCHANGED <<parseVars, runVars, dlVars, upVars>>

InitHost ==
    /\ HostInit /\ ParseInit /\ RunInit /\ isWindows = FALSE /\ DlInit /\ UpInit
NextHost == \E input \in HostInputs : HostCall(input)
SpecHost == InitHost /\ [][NextHost]_vars

\* ---- parsePingResult on its own
ParseCall(output) ==
    /\ parsePc = "idle"
    /\ parseIn' = output
    /\ parseOut' = parsePingResult(output)
    /\ parsePc' = "done"
    /\ UNCHANGED <<hostVars, runVars, dlVars, upVars>>

NextParse == \E output \in ParseInputs : ParseCall(output)
SpecParse == InitHost /\ [][NextParse]_vars

\* ---- /api/ping and /api/traceroute
RunFrame == UNCHANGED <<hostVars, parseVars, dlVars, upVars>>

Init ==
    /\ HostInit /\ ParseInit /\ RunInit /\ isWindows \in BOOLEAN /\ DlInit
    /\ UpInit

Next ==
    \/ \E q \in QueryHosts : PingRequest(q) /\ RunFrame
    \/ \E q \in QueryHosts : TracerouteRequest(q) /\ RunFrame
    \/ \E d \in DataLines : StdoutData(d) /\ RunFrame
    \/ \E d \in DataLines : StderrData(d) /\ RunFrame
    \/ TimerFires /\ RunFrame
    \/ ChildError /\ RunFrame
    \/ \E code \in ExitCodes : ChildClose(code) /\ RunFrame
    \/ Respond /\ RunFrame

Spec == Init /\ [][Next]_vars

\* the event loop runs the callback of a timer that stays armed
FairSpec == Spec /\ WF_runVars(TimerFires /\ RunFrame)

\* ---- /api/speedtest/download
DlFrame == UNCHANGED <<hostVars, parseVars, runVars, upVars>>

NextDownload ==
    \/ \E q \in DlQueries : DownloadRequest(q) /\ DlFrame
    \/ \E canContinue \in BOOLEAN : WriteChunk(canContinue) /\ DlFrame
    \/ EndStream /\ DlFrame
    \/ Drain /\ DlFrame

SpecDownload == InitHost /\ [][NextDownload]_vars

\* ---- /api/speedtest/upload
UpFrame == UNCHANGED <<hostVars, parseVars, runVars, dlVars>>

NextUpload ==
    \/ \E r \in UploadRequests : UploadArrives(r) /\ UpFrame
    \/ RawBodyParser /\ UpFrame
    \/ UploadHandler /\ UpFrame

SpecUpload == InitHost /\ [][NextUpload]_vars


-----------------------------------------------------------------------------
(* Properties of runCommand and of the ping and traceroute handlers         *)

\* the event a step delivers to runCommand
IsTimerStep == timer = "armed" /\ timer' = "fired"
IsErrorStep == errorsSeen' # errorsSeen
IsCloseStep == childState = "running" /\ childState' = "closed"

C1_Step ==
    /\ resolutions # <<>> => resolutions' = resolutions
    /\ (resolutions = <<>> /\ (IsTimerStep \/ IsErrorStep \/ IsCloseStep)) =>
          /\ Len(resolutions') = 1
          /\ IsTimerStep => resolutions'[1].by = "timeout"
          /\ IsErrorStep => resolutions'[1].by = "error" /\ timer' = "cleared"
          /\ IsCloseStep => resolutions'[1].by = "close" /\ timer' = "cleared"
    /\ timer \in {"fired", "cleared"} => timer' = timer

\* C1: resolve is called exactly once per invocation, by whichever of the
\* timer, the 'error' event and the 'close' event comes first; 'error' or
\* 'close' coming first clears the timer, and no later event (a second
\* 'error', a 'close' after the timer fired) calls resolve again or changes
\* what was passed.
C1_ExactlyOnce == [][C1_Step]_vars

\* the timer fired first, then both an 'error' and the 'close' arrived
C1_Witness ==
    /\ timer = "fired" /\ errorsSeen = MaxErrors /\ childState = "closed"
    /\ Len(resolutions) = 1 /\ resolutions[1].by = "timeout"

C2_Step ==
    (IsTimerStep /\ childState = "running" /\ errorsSeen = 0) =>
        /\ Len(resolutions') = 1
        /\ resolutions'[1].timedOut = TRUE
        /\ resolutions'[1].code = NullNum
        /\ resolutions'[1].stdout = stdout
        /\ resolutions'[1].stderr = stderr \o << TimedOutMark >>
        /\ resolutions'[1].killsBefore >= 1
        /\ killCalls' = killCalls + 1

\* C2: when the timer fires before any 'close' or 'error', the invocation
\* resolves in that step with timedOut = true, code = null and stderr = the
\* stderr gathered so far followed by the time-out mark, child.kill having
\* been called before resolve; so once the timer has fired the invocation is
\* resolved, and every invocation whose timer is armed resolves in the end.
C2_Timeout ==
    /\ [][C2_Step]_vars
    /\ [](timer = "fired" => Len(resolutions) = 1)
    /\ (timer = "armed") ~> (Len(resolutions) = 1)

\* a time-out after some stderr output
C2_Witness ==
    /\ timer = "fired" /\ resolutions # <<>> /\ resolutions[1].by = "timeout"
    /\ Len(resolutions[1].stderr) = 2 /\ killCalls = 1

\* s without the white space around it, by the positions of its other
\* characters
Trimmed(s) ==
    IF \A i \in 1..Len(s) : s[i] \in WhiteSpace THEN <<>>
    ELSE LET lo == CHOOSE i \in 1..Len(s) :
                     /\ s[i] \notin WhiteSpace
                     /\ \A j \in 1..(i - 1) : s[j] \in WhiteSpace
             hi == CHOOSE i \in 1..Len(s) :
                     /\ s[i] \notin WhiteSpace
                     /\ \A j \in (i + 1)..Len(s) : s[j] \in WhiteSpace
         IN  SubSeq(s, lo, hi)

\* the cases in which the validator is to reject a query value
Rejected(q) ==
    \/ q.t # "string"
    \/ LET host == Trimmed(q.s)
       IN  \/ host = <<>>
           \/ Len(host) > 255
           \/ \E i \in 1..Len(host) : host[i] \notin HostChars

\* C3: a process is spawned only with a host that passed the validator (the
\* last argument is the trimmed query value, 1 to 255 allow-list
\* characters); a rejected query value gets HTTP 400 with an error body and
\* no process, timer or promise resolution.
C3_OnlyValidatedHosts ==
    /\ spawned # NoSpawn =>
          LET host == spawned.args[Len(spawned.args)]
          IN  /\ ~Rejected(query)
              /\ host = Trimmed(query.s)
              /\ Len(host) \in 1..255
              /\ \A i \in 1..Len(host) : host[i] \in HostChars
    /\ (reqPc # "idle" /\ Rejected(query)) =>
          /\ response.status = 400 /\ response.error = "Invalid host"
          /\ reqPc = "responded"
          /\ spawned = NoSpawn /\ childState = "none" /\ timer = "none"
          /\ resolutions = <<>>

\* a host with a shell metacharacter was answered with 400
C3_Witness ==
    /\ reqPc = "responded" /\ response.status = 400
    /\ query = Str(<<"a", ";", "b">>) /\ spawned = NoSpawn

\* C7: for a valid host every outcome of runCommand becomes an HTTP 200
\* response with ok = (not timedOut and exit code 0): a spawn failure gives
\* exitCode null, timedOut false, ok false and the error text in the
\* captured stderr; a time-out gives exitCode null, timedOut true, ok false;
\* ok is true only after a 'close' with code 0.
C7_Outcomes ==
    (reqPc = "responded" /\ ~Rejected(query)) =>
        LET r == resolutions[1]
            text == IF route = "ping" THEN response.stats.raw
                    ELSE response.output
        IN  /\ response.status = 200
            /\ response.ok = (~response.timedOut /\ response.exitCode = Int2Num(0))
            /\ response.exitCode = r.code /\ response.timedOut = r.timedOut
            /\ r.by = "error" =>
                  /\ response.exitCode = NullNum /\ ~response.timedOut
                  /\ ~response.ok
                  /\ \E i \in 1..Len(text) : text[i] = ErrorText
            /\ r.by = "timeout" =>
                  /\ response.exitCode = NullNum /\ response.timedOut
                  /\ ~response.ok
            /\ response.ok => r.by = "close" /\ r.code = Int2Num(0)

\* a spawn failure answered with 200 and ok = false
C7_Witness ==
    /\ reqPc = "responded" /\ response.status = 200
    /\ resolutions[1].by = "error" /\ ~response.ok


-----------------------------------------------------------------------------
(* Properties of the download and upload handlers                           *)

\* C4: Content-Length is the requested size clamped into [1024, 52428800]
\* (25 MiB when the parameter is absent) whatever the parameter is, and
\* when the response has ended the bytes passed to res.write add up to it,
\* res.end was called once and nothing was written after it.
C4_ContentLength ==
    dlPc # "idle" =>
        /\ headerLen # <<>> /\ AllInClass(headerLen, Digits)
        /\ LET n == DigitsValue(headerLen)
           IN  /\ 1024 <= n /\ n <= 52428800
               /\ dlQuery = Undefined => n = 25 * 1024 * 1024
               /\ dlPc = "ended" =>
                     bytesWritten = n /\ ends = 1 /\ lateWrites = 0

\* C6: two requests for the same size, one handled after the other, never
\* get the same bytes.
C6_StreamsDiffer ==
    ( /\ dlPc = "ended" /\ prevQuery # NoQuery
      /\ ClampSize(dlQuery).k = "finite"
      /\ ClampSize(prevQuery) = ClampSize(dlQuery) )
    => stream # prevStream

\* C6 as amended: the first byte differs between each buffer written and
\* the one written before it in the same response (every reachable stream
\* is a prefix of a later one, so the last two buffers stand for every
\* pair); two requests for the same size, one after the other, get the same
\* bytes, since each starts the change of the first byte from the same fill.
C6_Amended ==
    /\ Len(stream) >= 2 =>
          stream[Len(stream)][1] # stream[Len(stream) - 1][1]
    /\ ( /\ dlPc = "ended" /\ prevQuery # NoQuery
         /\ ClampSize(prevQuery) = ClampSize(dlQuery) )
       => stream = prevStream

\* two requests for 200000 bytes have been answered, in four buffers each
C6_Witness ==
    /\ dlPc = "ended" /\ prevQuery = dlQuery
    /\ dlQuery = Str(<<"2", "0", "0", "0", "0", "0">>)
    /\ Len(stream) = 4 /\ Len(prevStream) = 4

\* the length of the i-th buffer of a response of the given size
ExpectedLen(size, i) ==
    LET left == size.h - 2 * CHUNK * (i - 1)
    IN  (IF left < 2 * CHUNK THEN left ELSE 2 * CHUNK) \div 2

C9_Step ==
    /\ dlPc = "paused" =>
          /\ stream' = stream /\ ends' = ends /\ bytesWritten' = bytesWritten
          /\ drainListeners = 1
          /\ dlPc' # "paused" =>
                /\ needDrain /\ ~needDrain' /\ dlPc' = "loop"
                /\ remaining' = remaining /\ chunk0' = chunk0
                /\ drainListeners' = 0
    /\ (dlPc = "loop" /\ stream' # stream) =>
          LET i == Len(stream')
              size == ClampSize(dlQuery)
          IN  /\ drainListeners = 0 /\ ends = 0
              /\ stream' = Append(stream, stream'[i])
              /\ stream'[i] = << (31 + i) % 256, ExpectedLen(size, i) >>
              /\ bytesWritten' + remaining'.h \div 2 = size.h \div 2
              /\ dlPc' = "paused" => drainListeners' = 1 /\ needDrain'

\* C9: while the writer is paused (a res.write returned false) there is no
\* res.write and no res.end until a 'drain' event; a pause registers one
\* 'drain' listener, which the event removes; the writer resumes with the
\* same remaining count, so the i-th buffer written is the i-th chunk of the
\* response (none skipped, none written twice) whatever the pauses.
C9_FlowControl == [][C9_Step]_vars

\* a response of several chunks has ended after two pauses or more
C9_Witness ==
    /\ dlPc = "ended" /\ drainsSeen >= 2 /\ Len(stream) >= 3
    /\ bytesWritten = 200000

\* C5: an upload whose body is longer than 200 MiB is never answered with
\* the success response; it is answered with 413, whatever its content type.
C5_Oversize413 ==
    (upPc = "responded" /\ upReq.len > 200 * 1024 * 1024) =>
        upResponse.status = 413

-----------------------------------------------------------------------------
(* Properties of validateHost and parsePingResult                           *)

AllowList == Letters \cup Digits \cup { ".", "-", ":" }

\* C8: every string with a character outside the allow-list is rejected,
\* every string of 1 to 255 allow-list characters is accepted and returned
\* trimmed, every non-string and every string whose trimmed form is empty or
\* longer than 255 is rejected.
C8_Validator ==
    hostPc = "done" =>
        /\ hostIn.t # "string" => hostOut = Null
        /\ hostIn.t = "string" =>
             LET s == hostIn.s
             IN  /\ (\E i \in 1..Len(s) : s[i] \notin AllowList)
                       => hostOut = Null
                 /\ (Len(s) \in 1..255 /\ \A i \in 1..Len(s) : s[i] \in AllowList)
                       => hostOut = Str(Trimmed(s))
                 /\ (Trimmed(s) = <<>> \/ Len(Trimmed(s)) > 255)
                       => hostOut = Null

\* C8 as amended: the allow-list is applied to the trimmed form.  A string
\* whose trimmed form has 1 to 255 characters, all of the allow-list, is
\* accepted and the trimmed form returned; every other string and every
\* non-string is rejected.
C8_Amended ==
    hostPc = "done" =>
        IF hostIn.t # "string" THEN hostOut = Null
        ELSE LET host == Trimmed(hostIn.s)
             IN  IF /\ Len(host) \in 1..255
                    /\ \A i \in 1..Len(host) : host[i] \in AllowList
                 THEN hostOut = Str(host)
                 ELSE hostOut = Null

\* a host of 255 characters with white space before it was accepted, trimmed
C8_Witness ==
    /\ hostPc = "done" /\ hostIn.t = "string" /\ hostOut # Null
    /\ Len(hostOut.s) = 255 /\ Len(hostIn.s) = 256
    /\ hostIn.s[1] \in WhiteSpace

\* C10: transmitted, received and loss are each an integer or null, raw is
\* the input, and a Windows statistics line with Sent = s and Lost = l gives
\* loss = round(l / s * 100).
C10_ParserFields ==
    parsePc = "done" =>
        /\ \A x \in { parseOut.transmitted, parseOut.received, parseOut.loss } :
              x = NullNum \/ IsInteger(x)
        /\ parseOut.raw = parseIn
        /\ LET W == { i \in 1..Len(parseIn) : IsWinStats(parseIn[i]) }
               w == FirstLine(parseIn, W)
           IN  (W # {} /\ IsNum(w[4]) /\ IsNum(w[12]) /\ w[4].n > 0) =>
                  \E n \in 0..(100 * w[12].n) :
                      /\ parseOut.loss = Int2Num(n)
                      /\ 2 * n * w[4].n - w[4].n <= 200 * w[12].n
                      /\ 200 * w[12].n < 2 * n * w[4].n + w[4].n

=============================================================================
